---- MODULE Spec2Model ----
(***************************************************************************)
(* A model of the AOE-Coach voice bot (src/src/bot.ts): the registry of    *)
(* channels and users, the Discord event handlers (!join, !leave,          *)
(* voiceStateUpdate), the per-user capture loop (subscribeAndTranscribe),  *)
(* the Deepgram session of one capture (transcribeUserAudio), the          *)
(* transcript handler (onUserSpeak) and the TTS playback                   *)
(* (speakTextInVoiceChannel).                                              *)
(*                                                                         *)
(* Node runs every handler to completion on one thread; a handler is one   *)
(* action, and an async function is cut into one action per await.         *)
(***************************************************************************)
EXTENDS Integers, Sequences, FiniteSets, TLC

\* ------------------------------------------------------------------ bounds
MaxSessions == 3   \* Deepgram sockets created in one behaviour
MaxConns == 2      \* voice connections created in one behaviour
MaxChunks == 2     \* audio chunks forwarded on one socket
MaxTasks == 2      \* suspended Results handlers started in one behaviour
MaxResults == 2    \* transcripts delivered on one socket
MaxItems == 4      \* phrases a transcript is put together from
Grid == 32         \* amplitudes are the multiples of 1/Grid in [-2, 2], and NaN

\* ---------------------------------------------------------------- the world
Users == {"u1", "u2"}          \* human members of the guild
OtherBots == {"b1"}            \* members whose user.bot is true
Self == "me"                   \* discordClient.user
Members == Users \cup OtherBots \cup {Self}
Channels == {"c1", "c2"}       \* voice channels of the one guild
Guild == "g1"
NoChannel == "none"            \* VoiceState.channel === null
NoStream == 0                  \* UserVoiceState.deepgramStream === undefined

IsBot(m) == m \notin Users

EmptyMap == [x \in {} |-> x]

MapPut(f, k, v) == [x \in (DOMAIN f) \cup {k} |-> IF x = k THEN v ELSE f[x]]

MapDelete(f, k) == [x \in (DOMAIN f) \ {k} |-> f[x]]

VARIABLES
  voice,                \* guild.voiceStates: member -> channel or NoChannel
  conns,                \* voice connections ever created, in creation order
  channelVoiceStates,   \* the registry: channelId -> ChannelVoiceState
  loops,                \* capture loops (closures of subscribeAndTranscribe)
  streams,              \* capture streams handed out by receiver.subscribe
  sessions,             \* Deepgram sockets with the locals of transcribeUserAudio
  tasks,                \* Results handlers suspended inside onUserSpeak
  playbacks,            \* audio players started by speakTextInVoiceChannel
  proc,                 \* the process: running or exited with a code
  regCalls,             \* the registry functions last called directly
  call                  \* one onUserSpeak call followed from transcript to reply

vars == <<voice, conns, channelVoiceStates, loops, streams, sessions, tasks,
          playbacks, proc, regCalls, call>>

\* -------------------------------------------------------- the registry
\* A heap h bundles what the registry functions and the capture loop touch:
\* [reg, loops, streams, sessions].

CloseWs(ss, s) ==
  [ss EXCEPT ![s].ws = "closed", ![s].closeCalls = @ + 1]

getOrInitChannelState(reg, channelId, guildId) ==
  IF channelId \in DOMAIN reg
  THEN reg
  ELSE MapPut(reg, channelId,
              [channelId |-> channelId, guildId |-> guildId, users |-> EmptyMap])

initUserInChannel(reg, channelId, guildId, userId, voiceState) ==
  LET reg1 == getOrInitChannelState(reg, channelId, guildId)
      users == reg1[channelId].users
  IN IF userId \notin DOMAIN users
     THEN [reg1 EXCEPT ![channelId].users =
             MapPut(users, userId,
                    [userId |-> userId, voiceState |-> voiceState,
                     deepgramStream |-> NoStream])]
     ELSE [reg1 EXCEPT ![channelId].users[userId].voiceState = voiceState]

\* cleanupUserInChannel without its test of channelState.users.size.
cleanupUserInChannel_KeepsEmpty(h, channelId, userId) ==
  IF channelId \notin DOMAIN h.reg
  THEN h
  ELSE LET users == h.reg[channelId].users
           ds == IF userId \in DOMAIN users
                 THEN users[userId].deepgramStream ELSE NoStream
           ss1 == IF ds # NoStream THEN CloseWs(h.sessions, ds) ELSE h.sessions
       IN [h EXCEPT !.reg[channelId].users = MapDelete(users, userId),
                    !.sessions = ss1]

cleanupUserInChannel(h, channelId, userId) ==
  IF channelId \notin DOMAIN h.reg
  THEN h
  ELSE LET users == h.reg[channelId].users
           ds == IF userId \in DOMAIN users
                 THEN users[userId].deepgramStream ELSE NoStream
           ss1 == IF ds # NoStream THEN CloseWs(h.sessions, ds) ELSE h.sessions
           users1 == MapDelete(users, userId)
           reg1 == IF DOMAIN users1 = {}
                   THEN MapDelete(h.reg, channelId)
                   ELSE [h.reg EXCEPT ![channelId].users = users1]
       IN [h EXCEPT !.reg = reg1, !.sessions = ss1]

\* The sockets the registry refers to (userState.deepgramStream, when set).
RegStreams(reg) ==
  UNION {{reg[c].users[u].deepgramStream : u \in DOMAIN reg[c].users} :
           c \in DOMAIN reg} \ {NoStream}

RECURSIVE CloseEach(_, _)
CloseEach(ss, ids) ==
  IF ids = {} THEN ss
  ELSE LET s == CHOOSE x \in ids : TRUE
       IN CloseEach(CloseWs(ss, s), ids \ {s})

\* closeAllDeepgramStreams without its last statement, channelVoiceStates.clear().
closeAll_KeepsChannels(h) ==
  [h EXCEPT !.reg = [c \in DOMAIN h.reg |->
                       [h.reg[c] EXCEPT !.users = EmptyMap]],
            !.sessions = CloseEach(h.sessions, RegStreams(h.reg))]

closeAllDeepgramStreams(h) ==
  [h EXCEPT !.reg = EmptyMap,
            !.sessions = CloseEach(h.sessions, RegStreams(h.reg))]

\* ------------------------------------------------------ the capture loop
\* receiver.subscribe(userId): the receiver keeps one stream per user and
\* hands out the existing one while it has not ended.
LiveStreams(sts, receiver, userId) ==
  {i \in 1..Len(sts) : sts[i].receiver = receiver /\ sts[i].userId = userId
                        /\ ~sts[i].ended}

\* transcribeUserAudio up to its first return: a new socket, not yet open,
\* with the function's locals.
NewSession(userId, channelId, stream) ==
  [userId |-> userId, channelId |-> channelId, stream |-> stream,
   ws |-> "connecting",
   wsReady |-> FALSE, sentChunks |-> 0, wsSends |-> 0,
   sendsAfterClose |-> 0, dropped |-> FALSE, resultReceived |-> FALSE,
   closeCalls |-> 0, speakCalls |-> 0]

\* One run of the closure subscribe() of loop l.
subscribe(h, l) ==
  LET lp == h.loops[l]
      live == LiveStreams(h.streams, lp.receiver, lp.userId)
      sts1 == IF live = {}
              THEN Append(h.streams, [receiver |-> lp.receiver,
                                      userId |-> lp.userId,
                                      ended |-> FALSE, data |-> FALSE])
              ELSE h.streams
      st == IF live = {} THEN Len(sts1) ELSE CHOOSE i \in live : TRUE
      ss1 == Append(h.sessions, NewSession(lp.userId, lp.channelId, st))
  IN [h EXCEPT !.streams = sts1, !.sessions = ss1,
               !.loops[l] = [lp EXCEPT !.state = "capturing",
                                       !.hasSpoken = FALSE,
                                       !.stream = st,
                                       !.session = Len(ss1),
                                       !.cycles = @ + 1]]

subscribeAndTranscribe(h, receiver, userId, channelId) ==
  LET reg1 == initUserInChannel(h.reg, channelId, Guild, userId, userId)
      lp == [userId |-> userId, channelId |-> channelId, receiver |-> receiver,
             state |-> "new", hasSpoken |-> FALSE, stream |-> 0,
             session |-> 0, cycles |-> 0]
      h1 == [h EXCEPT !.reg = reg1, !.loops = Append(h.loops, lp)]
  IN subscribe(h1, Len(h1.loops))

RECURSIVE subscribeEach(_, _, _, _)
subscribeEach(h, receiver, members, channelId) ==
  IF members = {} THEN h
  ELSE LET m == CHOOSE x \in members : TRUE
       IN subscribeEach(subscribeAndTranscribe(h, receiver, m, channelId),
                        receiver, members \ {m}, channelId)

\* ------------------------------------------------------ the trigger parser
\* A transcript is a sequence of one-character strings.
UpperCase == <<"A","B","C","D","E","F","G","H","I","J","K","L","M",
               "N","O","P","Q","R","S","T","U","V","W","X","Y","Z">>

LowerCase == <<"a","b","c","d","e","f","g","h","i","j","k","l","m",
               "n","o","p","q","r","s","t","u","v","w","x","y","z">>

IsSpace(c) == c \in {" ", "\t", "\n"}

IsAlpha(c) == \E i \in 1..26 : c = UpperCase[i] \/ c = LowerCase[i]

toLowerCase(c) ==
  IF \E i \in 1..26 : c = UpperCase[i]
  THEN LowerCase[CHOOSE i \in 1..26 : c = UpperCase[i]]
  ELSE c

RECURSIVE trimStart(_)
trimStart(s) ==
  IF s # <<>> /\ IsSpace(Head(s)) THEN trimStart(Tail(s)) ELSE s

RECURSIVE trimEnd(_)
trimEnd(s) ==
  IF s # <<>> /\ IsSpace(s[Len(s)]) THEN trimEnd(SubSeq(s, 1, Len(s) - 1)) ELSE s

trim(s) == trimEnd(trimStart(s))

\* s.split(/\s+/): the pieces between maximal runs of white space.
RECURSIVE splitFrom(_, _, _, _)
splitFrom(s, i, cur, acc) ==
  IF i > Len(s) THEN Append(acc, cur)
  ELSE IF IsSpace(s[i])
       THEN IF i > 1 /\ IsSpace(s[i - 1])
            THEN splitFrom(s, i + 1, cur, acc)
            ELSE splitFrom(s, i + 1, <<>>, Append(acc, cur))
       ELSE splitFrom(s, i + 1, Append(cur, s[i]), acc)

split(s) == splitFrom(s, 1, <<>>, <<>>)

\* w.replace(/[^a-z]/gi, '').toLowerCase()
RECURSIVE stripWord(_)
stripWord(w) ==
  IF w = <<>> THEN <<>>
  ELSE IF IsAlpha(Head(w))
       THEN <<toLowerCase(Head(w))>> \o stripWord(Tail(w))
       ELSE stripWord(Tail(w))

Coach == <<"c", "o", "a", "c", "h">>

Hey == <<"h", "e", "y">>

\* The index of the last word that is coach instead of the first.
findCoachIndex_Last(words) ==
  LET hits == {i \in 1..Len(words) : stripWord(words[i]) = Coach}
  IN IF hits = {} THEN -1
     ELSE (CHOOSE i \in hits : \A j \in hits : i >= j) - 1

\* words.findIndex(...), 0-based, -1 when no word is coach.
findCoachIndex(words) ==
  LET hits == {i \in 1..Len(words) : stripWord(words[i]) = Coach}
  IN IF hits = {} THEN -1
     ELSE (CHOOSE i \in hits : \A j \in hits : i <= j) - 1

RECURSIVE join(_)
join(words) ==
  IF words = <<>> THEN <<>>
  ELSE IF Len(words) = 1 THEN words[1]
       ELSE words[1] \o <<" ">> \o join(Tail(words))

\* The position after the longest run of characters of cs that starts at i.
RECURSIVE skipRun(_, _, _)
skipRun(s, i, cs) ==
  IF i <= Len(s) /\ s[i] \in cs THEN skipRun(s, i + 1, cs) ELSE i

\* lit matches s at position i, ignoring case.
matchesAt(s, i, lit) ==
  /\ i + Len(lit) - 1 <= Len(s)
  /\ \A k \in 1..Len(lit) : toLowerCase(s[i + k - 1]) = lit[k]

\* transcript.match(/^\s*hey[, ]+coach[!,. ]+(.*)$/i): group 1, or Null.
Null == <<"null">>

heyCoachMatch(s) ==
  LET i0 == skipRun(s, 1, {" ", "\t", "\n"})
      i1 == i0 + Len(Hey)
      i2 == skipRun(s, i1, {",", " "})
      i3 == i2 + Len(Coach)
      i4 == skipRun(s, i3, {"!", ",", ".", " "})
      rest == SubSeq(s, i4, Len(s))
  IN IF /\ matchesAt(s, i0, Hey)
        /\ i2 > i1
        /\ matchesAt(s, i2, Coach)
        /\ i4 > i3
        /\ \A k \in 1..Len(rest) : rest[k] # "\n"
     THEN rest
     ELSE Null

\* openaiInput without the test coachIndex < 3.
openaiInput_AnyIndex(transcript) ==
  LET words == split(trim(transcript))
      coachIndex == findCoachIndex(words)
      match == heyCoachMatch(transcript)
  IN IF coachIndex # -1
     THEN trim(join(SubSeq(words, coachIndex + 2, Len(words))))
     ELSE IF match # Null /\ trim(match) # <<>>
          THEN trim(match)
          ELSE Null

\* The part of onUserSpeak that computes openaiInput; <<>> and Null are falsy.
openaiInput(transcript) ==
  LET words == split(trim(transcript))
      coachIndex == findCoachIndex(words)
      match == heyCoachMatch(transcript)
  IN IF coachIndex # -1 /\ coachIndex < 3
     THEN trim(join(SubSeq(words, coachIndex + 2, Len(words))))
     ELSE IF match # Null /\ trim(match) # <<>>
          THEN trim(match)
          ELSE Null

\* if (openaiInput !== null) instead of if (openaiInput).
HasQuery_NotNull(transcript) == openaiInput(transcript) # Null

HasQuery(transcript) ==
  openaiInput(transcript) # Null /\ openaiInput(transcript) # <<>>

\* -------------------------------------------------- the assistant client
\* What the environment does to one sendTranscriptToOpenAI call: whether
\* OPENAI_API_KEY is set, whether fetch resolves, response.ok, and the body.
Bodies == {"invalid",        \* reading or parsing the body rejects
           "null",           \* the JSON value null
           "noChoices",      \* {}
           "emptyChoices",   \* {"choices": []}
           "noMessage",      \* {"choices": [{}]}
           "noContent",      \* {"choices": [{"message": {}}]}
           "emptyContent",   \* {"choices": [{"message": {"content": ""}}]}
           "text"}           \* {"choices": [{"message": {"content": "ok"}}]}

Envs == [apiKey : BOOLEAN, fetch : {"rejects", "resolves"}, ok : BOOLEAN,
         body : Bodies]

ReplyText == <<"o", "k">>

Undefined == <<"undefined">>

\* data.choices?.[0]?.message?.content
content(body) ==
  CASE body = "text" -> ReplyText
    [] body = "emptyContent" -> <<>>
    [] OTHER -> Undefined

\* reply || null
orNull(v) == IF v = Undefined \/ v = <<>> THEN Null ELSE v

\* sendTranscriptToOpenAI without its test of response.ok.
sendTranscriptToOpenAI_NoStatusCheck(env) ==
  IF ~env.apiKey THEN [raised |-> FALSE, value |-> Null]
  ELSE IF env.fetch = "rejects" THEN [raised |-> FALSE, value |-> Null]
  ELSE IF env.body \in {"invalid", "null"}
       THEN [raised |-> FALSE, value |-> Null]
  ELSE [raised |-> FALSE, value |-> orNull(content(env.body))]

\* sendTranscriptToOpenAI: what the caller gets, and whether it was thrown.
\* A rejected fetch, a rejected body read and the TypeError of null.choices
\* all happen inside the try and end in the catch.
sendTranscriptToOpenAI(env) ==
  IF ~env.apiKey THEN [raised |-> FALSE, value |-> Null]
  ELSE IF env.fetch = "rejects" THEN [raised |-> FALSE, value |-> Null]
  ELSE IF ~env.ok THEN [raised |-> FALSE, value |-> Null]
  ELSE IF env.body \in {"invalid", "null"}
       THEN [raised |-> FALSE, value |-> Null]
  ELSE [raised |-> FALSE, value |-> orNull(content(env.body))]

\* ----------------------------------------------------------- the platform
\* getVoiceConnection(guildId): the guild's connection, 0 when there is none
\* (a destroyed connection is no longer tracked).
getVoiceConnection(cs) ==
  IF cs # <<>> /\ ~cs[Len(cs)].destroyed THEN Len(cs) ELSE 0

\* joinVoiceChannel: the guild's tracked connection rejoins, else a new one.
joinVoiceChannel(cs, channelId) ==
  IF getVoiceConnection(cs) # 0
  THEN [cs EXCEPT ![Len(cs)].channelId = channelId]
  ELSE Append(cs, [channelId |-> channelId, destroyed |-> FALSE,
                   speaking |-> FALSE])

destroy(cs, c) == [cs EXCEPT ![c].destroyed = TRUE]

\* channel.members.filter(m => !m.user.bot)
NonBotMembers(v, channelId) == {m \in Members : v[m] = channelId /\ ~IsBot(m)}

Heap == [reg |-> channelVoiceStates, loops |-> loops, streams |-> streams,
         sessions |-> sessions]

Rearming(ls) == {l \in 1..Len(ls) : ls[l].state = "rearm"}

\* Sockets that may still be created: every pending setImmediate(subscribe)
\* has one reserved.
Budget == MaxSessions - Len(sessions) - Cardinality(Rearming(loops))

Running == proc.status = "running"

SetHeap(h) ==
  /\ channelVoiceStates' = h.reg
  /\ loops' = h.loops
  /\ streams' = h.streams
  /\ sessions' = h.sessions

\* ------------------------------------------------------------ the actions
NoCall == [pc |-> "none"]

Init ==
  /\ voice = [m \in Members |-> NoChannel]
  /\ conns = <<>>
  /\ channelVoiceStates = EmptyMap
  /\ loops = <<>>
  /\ streams = <<>>
  /\ sessions = <<>>
  /\ tasks = <<>>
  /\ playbacks = <<>>
  /\ proc = [status |-> "running", code |-> 0, cause |-> "none",
             threw |-> {}]
  /\ regCalls = <<>>
  /\ call = NoCall

\* messageCreate with content '!join', written by member m.
MessageJoin(m) ==
  LET channel == voice[m]
      listeners == NonBotMembers(voice, channel)
      conns1 == joinVoiceChannel(conns, channel)
      connection == getVoiceConnection(conns1)
  IN /\ Running
     /\ channel # NoChannel
     /\ Len(conns1) <= MaxConns
     /\ Cardinality(listeners) <= Budget
     /\ conns' = conns1
     /\ SetHeap(subscribeEach(Heap, connection, listeners, channel))
     /\ UNCHANGED <<voice, tasks, playbacks, proc, regCalls, call>>

\* messageCreate with content '!leave'.
MessageLeave ==
  LET connection == getVoiceConnection(conns)
  IN /\ Running
     /\ conns' = IF connection # 0 THEN destroy(conns, connection) ELSE conns
     /\ UNCHANGED <<voice, channelVoiceStates, loops, streams, sessions, tasks,
                    playbacks, proc, regCalls, call>>

\* The voiceStateUpdate handler, run for member m going from voice[m] to new.
voiceStateUpdate(m, new) ==
  LET old == voice[m]
      voice1 == [voice EXCEPT ![m] = new]
      botChannel == voice1[Self]
      joins == /\ new # NoChannel
               /\ botChannel # NoChannel
               /\ new = botChannel
               /\ m # Self
      connection == getVoiceConnection(conns)
      returnsEarly == joins /\ connection = 0
      h1 == IF joins /\ connection # 0
            THEN subscribeAndTranscribe(Heap, connection, m, new)
            ELSE Heap
      empty == old # NoChannel /\ NonBotMembers(voice1, old) = {}
      leaves == old # NoChannel /\ new = NoChannel
      h2 == IF leaves /\ ~returnsEarly
            THEN cleanupUserInChannel(h1, old, m)
            ELSE h1
  IN /\ Running
     /\ (joins /\ connection # 0) => Budget >= 1
     /\ voice' = voice1
     /\ conns' = IF ~returnsEarly /\ empty /\ connection # 0
                 THEN destroy(conns, connection)
                 ELSE conns
     /\ SetHeap(h2)
     /\ UNCHANGED <<tasks, playbacks, proc, regCalls, call>>

\* A member other than the bot joins, moves, leaves, or changes a flag such
\* as mute while staying in its channel.
MemberVoiceStateUpdate(m, new) ==
  /\ m # Self
  /\ voice[m] # NoChannel \/ new # NoChannel
  /\ voiceStateUpdate(m, new)

\* The gateway reports the bot's own voice state after a join or a destroy.
SelfVoiceStateUpdate ==
  LET connection == getVoiceConnection(conns)
      new == IF connection # 0 THEN conns[connection].channelId ELSE NoChannel
  IN /\ voice[Self] # new
     /\ voiceStateUpdate(Self, new)

\* --------------------------------------------------- capture stream events
\* 'data' on stream st: the loop's handler notes the speaker, and the handler
\* of every socket listening to the stream forwards or drops the chunk.
\* dropped: the handler has logged "dropping Opus chunk" at least once.
\* A 'data' handler that sends without testing wsReady.
onData_NoReadyCheck(ss, st) ==
  [i \in 1..Len(ss) |->
     IF ss[i].stream # st THEN ss[i]
     ELSE [ss[i] EXCEPT !.wsSends = @ + 1,
                        !.sentChunks = @ + 1,
                        !.sendsAfterClose =
                           IF ss[i].ws = "closed" THEN @ + 1 ELSE @]]

onData(ss, st) ==
  [i \in 1..Len(ss) |->
     IF ss[i].stream # st THEN ss[i]
     ELSE IF ss[i].wsReady
          THEN [ss[i] EXCEPT !.wsSends = @ + 1,
                             !.sentChunks = @ + 1,
                             !.sendsAfterClose =
                                IF ss[i].ws = "closed" THEN @ + 1 ELSE @]
          ELSE [ss[i] EXCEPT !.dropped = TRUE]]

\* Sockets that listen to stream st and forward what arrives.
Forwarding(st) ==
  {s \in 1..Len(sessions) : sessions[s].stream = st /\ sessions[s].wsReady}

StreamData(st) ==
  /\ Running
  /\ st \in 1..Len(streams)
  /\ ~streams[st].ended
  /\ \A s \in Forwarding(st) : sessions[s].sentChunks < MaxChunks
  /\ streams' = [streams EXCEPT ![st].data = TRUE]
  /\ loops' = [l \in 1..Len(loops) |->
                 IF loops[l].stream = st /\ loops[l].state = "capturing"
                 THEN [loops[l] EXCEPT !.hasSpoken = TRUE]
                 ELSE loops[l]]
  /\ sessions' = onData(sessions, st)
  /\ UNCHANGED <<voice, conns, channelVoiceStates, tasks, playbacks, proc,
                 regCalls, call>>

\* An 'end' handler that re-arms only inside its if (hasSpoken) block.
onEnd_OnlyAfterSpeech(lp) ==
  IF lp.hasSpoken
  THEN [lp EXCEPT !.hasSpoken = FALSE, !.state = "rearm"]
  ELSE [lp EXCEPT !.state = "stopped"]

\* The 'end' handler of one loop: setImmediate(subscribe), whatever hasSpoken.
onEnd(lp) == [lp EXCEPT !.hasSpoken = FALSE, !.state = "rearm"]

Listening(st) ==
  {l \in 1..Len(loops) : loops[l].stream = st /\ loops[l].state = "capturing"}

StreamEnd(st) ==
  /\ Running
  /\ st \in 1..Len(streams)
  /\ ~streams[st].ended
  /\ Cardinality(Listening(st)) <= Budget
  /\ streams' = [streams EXCEPT ![st].ended = TRUE]
  /\ loops' = [l \in 1..Len(loops) |->
                 IF l \in Listening(st) THEN onEnd(loops[l]) ELSE loops[l]]
  /\ UNCHANGED <<voice, conns, channelVoiceStates, sessions, tasks, playbacks,
                 proc, regCalls, call>>

\* The callback queued by setImmediate(subscribe) runs.
Rearm(l) ==
  /\ Running
  /\ l \in Rearming(loops)
  /\ SetHeap(subscribe(Heap, l))
  /\ UNCHANGED <<voice, conns, tasks, playbacks, proc, regCalls, call>>

\* ------------------------------------------------------- Deepgram events
WsOpen(s) ==
  /\ Running
  /\ s \in 1..Len(sessions)
  /\ sessions[s].ws = "connecting"
  /\ sessions' = [sessions EXCEPT ![s].ws = "open", ![s].wsReady = TRUE]
  /\ UNCHANGED <<voice, conns, channelVoiceStates, loops, streams, tasks,
                 playbacks, proc, regCalls, call>>

tryClose(ss, s) == IF ss[s].resultReceived THEN CloseWs(ss, s) ELSE ss

TEmpty == <<>>

TPlain == <<"g", "g">>

TQuery == <<"c", "o", "a", "c", "h", " ", "g", "o">>

Transcripts == {TEmpty, TPlain, TQuery}

\* The 'Results' handler of socket s up to its first suspension.  The
\* VoiceState it holds is the guild's live one, so voiceState.channel is null
\* once the user has left and onUserSpeak throws on its first statement.
Results(s, transcript) ==
  LET u == sessions[s].userId
      throws == voice[u] = NoChannel
      suspends == ~throws /\ HasQuery(transcript)
      ss1 == [sessions EXCEPT ![s].resultReceived = TRUE,
                              ![s].speakCalls = @ + 1]
  IN /\ Running
     /\ s \in 1..Len(sessions)
     /\ sessions[s].ws = "open"
     /\ transcript \in Transcripts
     /\ transcript # <<>> => sessions[s].speakCalls < MaxResults
     /\ suspends => Len(tasks) < MaxTasks
     /\ sessions' = IF transcript = <<>> THEN tryClose(sessions, s)
                    ELSE IF throws \/ suspends THEN ss1
                    ELSE tryClose(ss1, s)
     /\ tasks' = IF transcript # <<>> /\ suspends
                 THEN Append(tasks, [session |-> s, userId |-> u,
                                     pc |-> "openai", conn |-> 0])
                 ELSE tasks
     /\ UNCHANGED <<voice, conns, channelVoiceStates, loops, streams,
                    playbacks, proc, regCalls, call>>

\* sendTranscriptToOpenAI settles for task k; onUserSpeak goes on into
\* speakTextInVoiceChannel up to its await of tts.generate.
OpenAIReply(k, reply) ==
  LET t == tasks[k]
      connection == getVoiceConnection(conns)
      speaks == reply = "reply" /\ voice[t.userId] # NoChannel /\ connection # 0
  IN /\ Running
     /\ k \in 1..Len(tasks)
     /\ t.pc = "openai"
     /\ reply \in {"null", "reply"}
     /\ conns' = IF speaks THEN [conns EXCEPT ![connection].speaking = TRUE]
                 ELSE conns
     /\ tasks' = IF speaks
                 THEN [tasks EXCEPT ![k].pc = "tts", ![k].conn = connection]
                 ELSE [tasks EXCEPT ![k].pc = "done"]
     /\ sessions' = IF speaks THEN sessions ELSE tryClose(sessions, t.session)
     /\ UNCHANGED <<voice, channelVoiceStates, loops, streams, playbacks, proc,
                    regCalls, call>>

\* connection.subscribe(player) on connection c: the connection has one
\* subscription, so the player that held it loses it and pauses for want of
\* a subscriber; the new player plays.
takeOver(ps, c) ==
  Append([p \in 1..Len(ps) |->
            IF ps[p].conn = c /\ ps[p].status = "playing"
            THEN [ps[p] EXCEPT !.status = "autopaused"]
            ELSE ps[p]],
         [conn |-> c, status |-> "playing", stopped |-> FALSE,
          opusStream |-> "open", ffmpeg |-> "open"])

\* speakTextInVoiceChannel after tts.generate settles for task k: synthesis or
\* conversion throws and the catch logs, or the player starts on the
\* connection.
TtsDone(k, outcome) ==
  LET t == tasks[k]
  IN /\ Running
     /\ k \in 1..Len(tasks)
     /\ t.pc = "tts"
     /\ outcome \in {"synthesisFails", "conversionFails", "plays"}
     /\ playbacks' = IF outcome = "plays" THEN takeOver(playbacks, t.conn)
                     ELSE playbacks
     /\ tasks' = [tasks EXCEPT ![k].pc = "done"]
     /\ sessions' = tryClose(sessions, t.session)
     /\ UNCHANGED <<voice, conns, channelVoiceStates, loops, streams, proc,
                    regCalls, call>>

\* An Idle handler that stops the player and clears the flag only.
PlayerIdle_KeepsStreams(p) ==
  /\ Running
  /\ p \in 1..Len(playbacks)
  /\ playbacks[p].status = "playing"
  /\ playbacks' = [playbacks EXCEPT ![p].status = "idle",
                                    ![p].stopped = TRUE]
  /\ conns' = [conns EXCEPT ![playbacks[p].conn].speaking = FALSE]
  /\ UNCHANGED <<voice, channelVoiceStates, loops, streams, sessions, tasks,
                 proc, regCalls, call>>

\* AudioPlayerStatus.Idle of playback p: player.stop(), opusStream.destroy(),
\* ffmpeg.destroy(), connection.setSpeaking(false).
PlayerIdle(p) ==
  /\ Running
  /\ p \in 1..Len(playbacks)
  /\ playbacks[p].status = "playing"
  /\ playbacks' = [playbacks EXCEPT ![p].status = "idle",
                                    ![p].stopped = TRUE,
                                    ![p].opusStream = "destroyed",
                                    ![p].ffmpeg = "destroyed"]
  /\ conns' = [conns EXCEPT ![playbacks[p].conn].speaking = FALSE]
  /\ UNCHANGED <<voice, channelVoiceStates, loops, streams, sessions, tasks,
                 proc, regCalls, call>>

\* ------------------------------------------------------------- shutdown
\* cleanup(): close the registry's sockets, leave every voice connection,
\* process.exit(0).  It runs on SIGINT/SIGTERM and on the crash handlers.
\* failing are the connections whose disconnect() or destroy() throws: the
\* catch inside the loop logs them (threw) and the loop goes on with the next
\* connection.
Tracking(cs) == {c \in 1..Len(cs) : ~cs[c].destroyed}

cleanup(cause, failing) ==
  /\ Running
  /\ cause \in {"signal", "crash"}
  /\ failing \subseteq Tracking(conns)
  /\ SetHeap(closeAllDeepgramStreams(Heap))
  /\ conns' = [c \in 1..Len(conns) |->
                 IF c \in failing THEN conns[c]
                 ELSE [conns[c] EXCEPT !.destroyed = TRUE]]
  /\ proc' = [status |-> "exited", code |-> 0, cause |-> cause,
              threw |-> failing]
  /\ UNCHANGED <<voice, tasks, playbacks, regCalls, call>>

\* ------------------------------------- one transcript, from text to reply
\* Transcripts put together from at most MaxItems phrases.
Phrases == {<<"h", "e", "y", " ">>,
            <<"c", "o", "a", "c", "h", " ">>,
            <<"C", "o", "a", "c", "h", "!">>,
            <<"g", "o", " ">>,
            <<",", " ">>,
            <<"\n">>}

RECURSIVE concat(_)
concat(q) == IF q = <<>> THEN <<>> ELSE Head(q) \o concat(Tail(q))

Utterances ==
  {concat(q) : q \in UNION {[1..n -> Phrases] : n \in 0..MaxItems}}

\* An onUserSpeak that passes every transcript on to the assistant.
onUserSpeak_AsksAnyway ==
  /\ call.pc = "heard"
  /\ call' = [pc |-> "asking",
              transcript |-> call.transcript,
              openaiInput |-> openaiInput(call.transcript),
              asked |-> TRUE, sent |-> FALSE, spoke |-> FALSE]
  /\ UNCHANGED <<voice, conns, channelVoiceStates, loops, streams, sessions,
                 tasks, playbacks, proc, regCalls>>

\* onUserSpeak from the split of the transcript to "if (openaiInput)": the
\* call goes on to sendTranscriptToOpenAI (asked) or logs "Trigger phrase not
\* found" and returns.  sent: the "(AI)" message was sent; spoke:
\* speakTextInVoiceChannel was invoked.
onUserSpeak ==
  /\ call.pc = "heard"
  /\ call' = [pc |-> IF HasQuery(call.transcript) THEN "asking"
                     ELSE "discarded",
              transcript |-> call.transcript,
              openaiInput |-> openaiInput(call.transcript),
              asked |-> HasQuery(call.transcript),
              sent |-> FALSE, spoke |-> FALSE]
  /\ UNCHANGED <<voice, conns, channelVoiceStates, loops, streams, sessions,
                 tasks, playbacks, proc, regCalls>>

\* A continuation that tests channelObj only.
afterReply_NoReplyTest(openaiReply, channelObj) ==
  [sent |-> channelObj, spoke |-> channelObj]

\* if (openaiReply && channelObj) { send(...); await speakTextInVoiceChannel }
afterReply(openaiReply, channelObj) ==
  [sent |-> openaiReply # Null /\ channelObj,
   spoke |-> openaiReply # Null /\ channelObj]

\* The awaited sendTranscriptToOpenAI(openaiInput) settles under env and
\* onUserSpeak runs on; channelObj tells whether the channel was in the cache.
AssistantSettles(env, channelObj) ==
  LET r == sendTranscriptToOpenAI(env)
      after == afterReply(r.value, channelObj)
  IN /\ call.pc = "asking"
     /\ call' = [pc |-> IF r.raised THEN "rejected" ELSE "replied",
                 transcript |-> call.transcript,
                 openaiInput |-> call.openaiInput,
                 asked |-> call.asked,
                 env |-> env,
                 channelObj |-> channelObj,
                 openaiReply |-> r.value,
                 sent |-> ~r.raised /\ after.sent,
                 spoke |-> ~r.raised /\ after.spoke]
     /\ UNCHANGED <<voice, conns, channelVoiceStates, loops, streams, sessions,
                    tasks, playbacks, proc, regCalls>>

\* ------------------------------------------------- sample quantization
\* One pass of the loop that fills monoPcmBuffer.  An amplitude is NaN or the
\* rational n/Grid; a scaled value is the rational num/Grid.
NegativeScale == 32768

PositiveScale == 32767

Samples ==
  {[nan |-> FALSE, n |-> n] : n \in (-2 * Grid)..(2 * Grid)}
    \cup {[nan |-> TRUE, n |-> 0]}

\* Math.max(-1, Math.min(1, x)); NaN stays NaN.
clamp(x) ==
  IF x.nan THEN x
  ELSE [x EXCEPT !.n = IF x.n > Grid THEN Grid
                       ELSE IF x.n < -Grid THEN -Grid ELSE x.n]

\* A scaling that uses 0x7FFF for both signs.
scale_OneFactor(s) ==
  IF s.nan THEN [nan |-> TRUE, num |-> 0]
  ELSE [nan |-> FALSE, num |-> s.n * PositiveScale]

\* s < 0 ? s * 0x8000 : s * 0x7FFF
scale(s) ==
  IF s.nan THEN [nan |-> TRUE, num |-> 0]
  ELSE IF s.n < 0 THEN [nan |-> FALSE, num |-> s.n * NegativeScale]
  ELSE [nan |-> FALSE, num |-> s.n * PositiveScale]

\* The integer part of num/Grid, rounding toward zero.
truncate(num) == IF num < 0 THEN -((-num) \div Grid) ELSE num \div Grid

\* buf.writeInt16LE(v, offset): throws a RangeError outside the 16-bit range
\* (NaN passes that test), else stores the integer part, 0 for NaN.
writeInt16LE(v) ==
  IF v.nan THEN [threw |-> FALSE, value |-> 0]
  ELSE IF v.num > PositiveScale * Grid \/ v.num < -NegativeScale * Grid
       THEN [threw |-> TRUE, value |-> 0]
       ELSE [threw |-> FALSE, value |-> truncate(v.num)]

WriteSample ==
  LET w == writeInt16LE(scale(clamp(call.sample)))
  IN /\ call.pc = "sample"
     /\ call' = [pc |-> IF w.threw THEN "threw" ELSE "written",
                 sample |-> call.sample, value |-> w.value]
     /\ UNCHANGED <<voice, conns, channelVoiceStates, loops, streams, sessions,
                    tasks, playbacks, proc, regCalls>>

\* -------------------------------------------- the registry called directly
\* The registry's functions invoked one at a time, in any order, as a caller
\* of the module could; regCalls keeps the last two calls.
Log(name) ==
  [op |-> name, channelsBefore |-> Cardinality(DOMAIN channelVoiceStates)]

Logged(entry) ==
  IF Len(regCalls) < 2 THEN Append(regCalls, entry)
  ELSE <<regCalls[2], entry>>

RegInitUser(channelId, userId) ==
  /\ channelVoiceStates' =
       initUserInChannel(channelVoiceStates, channelId, Guild, userId, userId)
  /\ regCalls' = Logged(Log("initUserInChannel"))
  /\ UNCHANGED <<voice, conns, loops, streams, sessions, tasks, playbacks, proc,
                 call>>

RegCleanupUser(channelId, userId) ==
  /\ SetHeap(cleanupUserInChannel(Heap, channelId, userId))
  /\ regCalls' = Logged(Log("cleanupUserInChannel"))
  /\ UNCHANGED <<voice, conns, tasks, playbacks, proc, call>>

RegCloseAll ==
  /\ SetHeap(closeAllDeepgramStreams(Heap))
  /\ regCalls' = Logged(Log("closeAllDeepgramStreams"))
  /\ UNCHANGED <<voice, conns, tasks, playbacks, proc, call>>

\* ------------------------------------------------------ specifications
Places == Channels \cup {NoChannel}

Outcomes == {"synthesisFails", "conversionFails", "plays"}

\* The life cycle of connections, registry entries, capture loops and
\* sockets around one user; transcripts here carry no trigger, so no Results
\* handler suspends, and audio chunks are left to LoopSpec.
Actors == {"u1"}

Next ==
  \/ \E m \in Actors : MessageJoin(m)
  \/ MessageLeave
  \/ \E m \in Actors, new \in Places : MemberVoiceStateUpdate(m, new)
  \/ SelfVoiceStateUpdate
  \/ \E st \in 1..MaxSessions : StreamEnd(st)
  \/ \E l \in 1..MaxSessions : Rearm(l)
  \/ \E s \in 1..MaxSessions : WsOpen(s)
  \/ \E s \in 1..MaxSessions, t \in {TEmpty, TPlain} : Results(s, t)
  \/ \E cause \in {"signal", "crash"}, failing \in SUBSET (1..MaxConns) :
       cleanup(cause, failing)

Spec == Init /\ [][Next]_vars

\* The capture loop alone in a process that keeps running, with the event
\* loop's guarantee that a callback queued by setImmediate runs.
NextLoop ==
  \/ \E m \in Actors : MessageJoin(m)
  \/ \E m \in Actors, new \in Places : MemberVoiceStateUpdate(m, new)
  \/ SelfVoiceStateUpdate
  \/ \E st \in 1..MaxSessions : StreamData(st)
  \/ \E st \in 1..MaxSessions : StreamEnd(st)
  \/ \E l \in 1..MaxSessions : Rearm(l)

LoopSpec ==
  /\ Init
  /\ [][NextLoop]_vars
  /\ \A l \in 1..MaxSessions : WF_vars(Rearm(l))

\* The registry under arbitrary direct calls.
NextRegistry ==
  \/ \E c \in Channels, u \in Members : RegInitUser(c, u)
  \/ \E c \in Channels, u \in Members : RegCleanupUser(c, u)
  \/ RegCloseAll

RegistrySpec == Init /\ [][NextRegistry]_vars

\* Two users in a joined channel, from their first captures on: transcripts
\* with and without a trigger, the assistant call, synthesis and playback,
\* while a user may leave and the bot may be told to leave.  Audio chunks
\* play no part in what a Results handler does and are left out here.
Talkers == {"u1", "u2"}

TalkInit ==
  LET h == subscribeEach(
             [reg |-> EmptyMap, loops |-> <<>>, streams |-> <<>>,
              sessions |-> <<>>], 1, Talkers, "c1")
  IN /\ voice = [m \in Members |->
                   IF m \in Talkers \cup {Self} THEN "c1" ELSE NoChannel]
     /\ conns = joinVoiceChannel(<<>>, "c1")
     /\ channelVoiceStates = h.reg
     /\ loops = h.loops
     /\ streams = h.streams
     /\ sessions = h.sessions
     /\ tasks = <<>>
     /\ playbacks = <<>>
     /\ proc = [status |-> "running", code |-> 0, cause |-> "none",
                threw |-> {}]
     /\ regCalls = <<>>
     /\ call = NoCall

NextTalk ==
  \/ \E s \in 1..MaxSessions : WsOpen(s)
  \/ \E st \in 1..MaxSessions : StreamEnd(st)
  \/ \E l \in 1..MaxSessions : Rearm(l)
  \/ \E s \in 1..MaxSessions, t \in Transcripts : Results(s, t)
  \/ \E k \in 1..MaxTasks, r \in {"null", "reply"} : OpenAIReply(k, r)
  \/ \E k \in 1..MaxTasks, o \in Outcomes : TtsDone(k, o)
  \/ \E p \in 1..MaxTasks : PlayerIdle(p)
  \/ \E m \in Talkers : MemberVoiceStateUpdate(m, NoChannel)
  \/ MessageLeave

TalkSpec == TalkInit /\ [][NextTalk]_vars

\* Two users captured in a joined channel, within one utterance of each:
\* audio chunks arrive while the sockets open, get transcripts and are closed.
NextForward ==
  \/ \E s \in 1..MaxSessions : WsOpen(s)
  \/ \E st \in 1..MaxSessions : StreamData(st)
  \/ \E s \in 1..MaxSessions : Results(s, TPlain)

ForwardSpec == TalkInit /\ [][NextForward]_vars

\* One transcript handed to onUserSpeak, up to the assistant's reply.
HeardInit ==
  /\ voice = [m \in Members |-> NoChannel]
  /\ conns = <<>>
  /\ channelVoiceStates = EmptyMap
  /\ loops = <<>>
  /\ streams = <<>>
  /\ sessions = <<>>
  /\ tasks = <<>>
  /\ playbacks = <<>>
  /\ proc = [status |-> "running", code |-> 0, cause |-> "none",
             threw |-> {}]
  /\ regCalls = <<>>
  /\ call \in {[pc |-> "heard", transcript |-> t] : t \in Utterances}

NextAsk ==
  \/ onUserSpeak
  \/ \E env \in Envs, channelObj \in BOOLEAN :
       AssistantSettles(env, channelObj)

AskSpec == HeardInit /\ [][NextAsk]_vars

\* One sample of a synthesized buffer on its way into monoPcmBuffer.
SampleInit ==
  /\ voice = [m \in Members |-> NoChannel]
  /\ conns = <<>>
  /\ channelVoiceStates = EmptyMap
  /\ loops = <<>>
  /\ streams = <<>>
  /\ sessions = <<>>
  /\ tasks = <<>>
  /\ playbacks = <<>>
  /\ proc = [status |-> "running", code |-> 0, cause |-> "none",
             threw |-> {}]
  /\ regCalls = <<>>
  /\ call \in {[pc |-> "sample", sample |-> x] : x \in Samples}

NextSample == WriteSample

SampleSpec == SampleInit /\ [][NextSample]_vars

\* Two users in a joined channel whose transcripts carry a trigger: the
\* assistant call, synthesis and playback of each reply, up to the idle player.
NextPlay ==
  \/ \E s \in 1..MaxSessions : WsOpen(s)
  \/ \E s \in 1..MaxSessions : Results(s, TQuery)
  \/ \E k \in 1..MaxTasks, r \in {"null", "reply"} : OpenAIReply(k, r)
  \/ \E k \in 1..MaxTasks, o \in Outcomes : TtsDone(k, o)
  \/ \E p \in 1..MaxTasks : PlayerIdle(p)

PlaySpec == TalkInit /\ [][NextPlay]_vars

\* A user and another bot come and go around the channel the bot is told to
\* join and to leave; audio and transcripts are left out.
Guests == {"u1", "b1"}

NextGuests ==
  \/ \E m \in Actors : MessageJoin(m)
  \/ MessageLeave
  \/ \E m \in Guests, new \in Places : MemberVoiceStateUpdate(m, new)
  \/ SelfVoiceStateUpdate

GuestSpec == Init /\ [][NextGuests]_vars

\* ------------------------------------------------------------ properties
Tracked(reg, c, u) == c \in DOMAIN reg /\ u \in DOMAIN reg[c].users

TrackedAnywhere(reg, u) == \E c \in DOMAIN reg : u \in DOMAIN reg[c].users

\* The sockets of user u captured in channel c that are open.
OpenSessions(u, c) ==
  {s \in 1..Len(sessions) : /\ sessions[s].userId = u
                            /\ sessions[s].channelId = c
                            /\ sessions[s].ws = "open"}

\* The sockets of user u that were created and have not been closed.
Unclosed(u) ==
  {s \in 1..Len(sessions) : sessions[s].userId = u /\ sessions[s].ws # "closed"}

ConnectedTo(cs, c) ==
  getVoiceConnection(cs) # 0 /\ cs[getVoiceConnection(cs)].channelId = c

\* C1: a step that removes a user from a channel of the registry while the
\* process runs (cleanupUserInChannel) closes each open socket of that user
\* in that channel exactly once, and leaves the registry without the user
\* and without a reference to those sockets.
C1_RemoveSpeakerClosesSession ==
  [][\A c \in Channels, u \in Members :
       (/\ proc'.status = "running"
        /\ Tracked(channelVoiceStates, c, u)
        /\ ~Tracked(channelVoiceStates', c, u)
        /\ OpenSessions(u, c) # {})
       => /\ \A s \in OpenSessions(u, c) :
               /\ sessions'[s].ws = "closed"
               /\ sessions'[s].closeCalls = sessions[s].closeCalls + 1
          /\ OpenSessions(u, c) \cap RegStreams(channelVoiceStates') = {}]_vars

\* C2: in every reachable state each user has at most one socket that was
\* created and is not closed.
C2_OneOpenSessionPerSpeaker ==
  \A u \in Members : Cardinality(Unclosed(u)) <= 1

\* C5: a step that opens a new socket (requests a new capture) for a user
\* leaves that user registered; so once a user has been removed, nothing
\* more is captured for them until a join registers them again.
C5_NoCaptureAfterRemoval ==
  [][\A s \in 1..MaxSessions :
       (s > Len(sessions) /\ s <= Len(sessions'))
       => TrackedAnywhere(channelVoiceStates', sessions'[s].userId)]_vars

\* C7: a user never has two capture cycles active at once: the next capture
\* starts only after the stream of the previous one has ended.
C7_OneCaptureCyclePerSpeaker ==
  \A u \in Members :
    Cardinality({l \in 1..Len(loops) :
                   loops[l].userId = u /\ loops[l].state = "capturing"}) <= 1

\* C8: a membership change that empties a registered channel of its non-bot
\* members leaves the registry without that channel and the guild without a
\* connection to it.
C8_EmptyChannelIsDropped ==
  [][\A c \in Channels :
       (/\ c \in DOMAIN channelVoiceStates
        /\ NonBotMembers(voice, c) # {}
        /\ NonBotMembers(voice', c) = {})
       => /\ c \notin DOMAIN channelVoiceStates'
          /\ ~ConnectedTo(conns', c)]_vars

\* C9: the shutdown step (closeAllDeepgramStreams inside cleanup) issues one
\* close on every socket that is open when it runs and empties the registry.
C9_CloseAllClosesEverySession ==
  [][(proc.status = "running" /\ proc'.status = "exited")
       => /\ channelVoiceStates' = EmptyMap
          /\ \A s \in 1..Len(sessions) :
               sessions[s].ws = "open"
               => sessions'[s].closeCalls = sessions[s].closeCalls + 1]_vars

\* C3: when the try block of a speak operation fails (the task leaves "tts"
\* without starting a player), the speaking flag it set is clear afterwards.
C3_FailedSpeakClearsFlag ==
  [][\A k \in 1..Len(tasks) :
       (/\ tasks[k].pc = "tts"
        /\ tasks'[k].pc = "done"
        /\ Len(playbacks') = Len(playbacks))
       => ~conns'[tasks[k].conn].speaking]_vars

\* C4: onUserSpeak is invoked at most once for each socket.
C4_OneTranscriptPerSession ==
  \A s \in 1..Len(sessions) : sessions[s].speakCalls <= 1

\* The capture stream loop l listens to has ended and the loop has not
\* subscribed to a new one.
Ended(l) == l <= Len(loops) /\ streams[loops[l].stream].ended

\* C6: whenever the capture stream of a loop has ended, the loop subscribes
\* again (its next cycle begins), whether or not data arrived on the ended
\* stream and whether or not the user is still registered.
C6_EndIsFollowedBySubscribe ==
  \A l \in 1..MaxSessions : Ended(l) ~> ~Ended(l)

\* A loop in its third cycle, after one stream that ended without data and
\* one that ended with data.
C6_Witness ==
  \E l \in 1..Len(loops) :
    /\ loops[l].cycles = 3
    /\ \E a, b \in 1..Len(streams) :
         /\ streams[a].userId = loops[l].userId
         /\ streams[b].userId = loops[l].userId
         /\ streams[a].ended /\ ~streams[a].data
         /\ streams[b].ended /\ streams[b].data

\* C10: after every call of closeAllDeepgramStreams, the first as well as a
\* second one right after it, the registry is empty and refers to no socket.
C10_CloseAllIdempotent ==
  (regCalls # <<>> /\ regCalls[Len(regCalls)].op = "closeAllDeepgramStreams")
  => /\ channelVoiceStates = EmptyMap
     /\ RegStreams(channelVoiceStates) = {}

\* Two calls in a row, the first on a registry that held channels.
C10_Witness ==
  /\ Len(regCalls) = 2
  /\ regCalls[1].op = "closeAllDeepgramStreams"
  /\ regCalls[2].op = "closeAllDeepgramStreams"
  /\ regCalls[1].channelsBefore > 0
  /\ regCalls[2].channelsBefore = 0

\* The speak operations in progress on connection c: those awaiting
\* tts.generate after setSpeaking(true), and those whose player is playing.
Synthesizing(c) ==
  {k \in 1..Len(tasks) : tasks[k].pc = "tts" /\ tasks[k].conn = c}

Playing(c) ==
  {p \in 1..Len(playbacks) :
     playbacks[p].status = "playing" /\ playbacks[p].conn = c}

\* C11: on every connection at most one speak operation is in progress at a
\* time, from setSpeaking(true) until its player reports idle, also when the
\* transcripts of two users of the channel get replies concurrently.
C11_OnePlaybackPerChannel ==
  \A c \in 1..Len(conns) :
    Cardinality(Synthesizing(c)) + Cardinality(Playing(c)) <= 1

\* The Results handlers of socket s that are suspended in onUserSpeak.
Pending(s) ==
  {k \in 1..Len(tasks) : tasks[k].session = s /\ tasks[k].pc # "done"}

\* C12: once a socket has had a non-empty transcript and every Results
\* handler it started has run to its end, whatever onUserSpeak did,
\* resultReceived is set and a close of the socket has been attempted.
C12_CloseAfterEveryOutcome ==
  \A s \in 1..Len(sessions) :
    (sessions[s].speakCalls >= 1 /\ Pending(s) = {})
    => /\ sessions[s].resultReceived
       /\ sessions[s].closeCalls >= 1

\* C14: a process that has terminated has exit code 1 when the crash handlers
\* (uncaughtException, unhandledRejection) ended it and 0 when a signal did.
C14_ExitCodeTellsCause ==
  proc.status = "exited"
  => /\ proc.cause = "crash" => proc.code = 1
     /\ proc.cause = "signal" => proc.code = 0

\* C15: in a shutdown during which the disconnect of some voice connection
\* throws, a close is still attempted on every socket that is open, every
\* other connection is left, and the process terminates.
C15_ShutdownIsolatesFailures ==
  [][(proc.status = "running" /\ proc'.threw # {})
     => /\ proc'.status = "exited"
        /\ \A s \in 1..Len(sessions) :
             sessions[s].ws = "open"
             => sessions'[s].closeCalls = sessions[s].closeCalls + 1
        /\ \A c \in Tracking(conns) \ proc'.threw : conns'[c].destroyed]_vars

\* C13: a chunk is sent on a socket only by a 'data' event that finds the
\* socket already signalled open (so a chunk that arrived before the open is
\* not sent by the open or by anything later), one send per event, and
\* sentChunks always equals the number of chunks sent.
C13_ForwardOnlyAfterOpen ==
  [][\A s \in 1..Len(sessions) :
       /\ sessions'[s].wsSends # sessions[s].wsSends
          => /\ sessions[s].ws # "connecting"
             /\ sessions'[s].wsSends = sessions[s].wsSends + 1
             /\ sessions'[s].ws = sessions[s].ws
       /\ sessions'[s].sentChunks = sessions'[s].wsSends]_vars

\* A socket that dropped a chunk before it opened and forwarded the chunks
\* that came after.
C13_Witness ==
  \E s \in 1..Len(sessions) :
    /\ sessions[s].dropped
    /\ sessions[s].ws = "open"
    /\ sessions[s].sentChunks = MaxChunks

\* ---------------------------------------- the trigger parser's contract
\* The whitespace-delimited tokens of a transcript, and the token coach.
Words(t) == split(trim(t))

IsCoach(w) == stripWord(w) = Coach

\* Token i (counted from 1) is the first token coach of transcript t.
FirstCoachAt(t, i) ==
  /\ i \in 1..Len(Words(t))
  /\ IsCoach(Words(t)[i])
  /\ \A j \in 1..(i - 1) : ~IsCoach(Words(t)[j])

NoCoachInFirstThree(t) ==
  \A i \in 1..3 : i <= Len(Words(t)) => ~IsCoach(Words(t)[i])

\* The fallback pattern as the contract words it: t begins (white space
\* aside) with hey, one or more of comma and space, coach, one or more of
\* ! , . and space; the value is the remainder after them, Null if t does not
\* match.
Remainder(t) ==
  LET u == trimStart(t)
      i1 == 1 + Len(Hey)
      i2 == skipRun(u, i1, {",", " "})
      i3 == i2 + Len(Coach)
      i4 == skipRun(u, i3, {"!", ",", ".", " "})
  IN IF /\ matchesAt(u, 1, Hey)
        /\ i2 > i1
        /\ matchesAt(u, i2, Coach)
        /\ i4 > i3
     THEN SubSeq(u, i4, Len(u))
     ELSE Null

\* onUserSpeak has just computed openaiInput.
Parsed == call.pc \in {"asking", "discarded"}

\* C17: when the first token coach of the transcript is token 0, 1 or 2 and
\* a token follows it, the parser yields the tokens after it joined by single
\* spaces and trimmed, and the query is made.
C17_CoachInFirstThree ==
  Parsed =>
    \A i \in 1..3 :
      (FirstCoachAt(call.transcript, i) /\ i < Len(Words(call.transcript)))
      => /\ call.openaiInput =
              trim(join(SubSeq(Words(call.transcript), i + 1,
                               Len(Words(call.transcript)))))
         /\ call.pc # "discarded"

\* coach is the third token and a token follows it.
C17_Witness ==
  /\ Parsed
  /\ FirstCoachAt(call.transcript, 3)
  /\ Len(Words(call.transcript)) > 3
  /\ call.pc = "asking"

\* C18: when none of the first three tokens is coach and the transcript
\* matches the fallback pattern with a remainder whose trim is not empty, the
\* parser yields that remainder trimmed, and the query is made.
C18_HeyCoachFallback ==
  (/\ Parsed
   /\ NoCoachInFirstThree(call.transcript)
   /\ Remainder(call.transcript) # Null
   /\ trim(Remainder(call.transcript)) # <<>>)
    => /\ call.openaiInput = trim(Remainder(call.transcript))
       /\ call.pc # "discarded"

\* C19: when none of the first three tokens is coach (coach comes later or
\* never) and the transcript does not match the fallback pattern, no query is
\* made.
C19_NoTriggerNoQuery ==
  (/\ Parsed
   /\ NoCoachInFirstThree(call.transcript)
   /\ Remainder(call.transcript) = Null)
    => /\ call.pc = "discarded"
       /\ call.openaiInput = Null

\* coach is the fourth token or a later one, and nothing was asked.
C19_Witness ==
  /\ Parsed
  /\ \E i \in 4..Len(Words(call.transcript)) : FirstCoachAt(call.transcript, i)
  /\ Remainder(call.transcript) = Null
  /\ call.pc = "discarded"

\* C20: when the rule that applies leaves nothing after trimming (coach among
\* the first three tokens with no token after it, or the fallback pattern
\* followed by white space only), no query is made.
C20_EmptyRemainderNoQuery ==
  (/\ Parsed
   /\ \/ \E i \in 1..3 : /\ FirstCoachAt(call.transcript, i)
                         /\ i = Len(Words(call.transcript))
      \/ /\ NoCoachInFirstThree(call.transcript)
         /\ Remainder(call.transcript) # Null
         /\ trim(Remainder(call.transcript)) = <<>>)
    => call.pc = "discarded"

\* coach is the last of at most three tokens: the first rule yields "".
C20_Witness ==
  /\ Parsed
  /\ \E i \in 1..3 : /\ FirstCoachAt(call.transcript, i)
                     /\ i = Len(Words(call.transcript))
  /\ call.openaiInput = <<>>
  /\ call.pc = "discarded"

\* C16: sendTranscriptToOpenAI never throws to onUserSpeak; it returns null
\* without a credential, when the transport fails, on a non-success status
\* and when the body has no text at choices[0].message.content, and the text
\* of the first choice in every other case.
C16_QueryNeverRaises ==
  call.pc \in {"replied", "rejected"}
  => /\ call.pc = "replied"
     /\ IF \/ ~call.env.apiKey
           \/ call.env.fetch = "rejects"
           \/ ~call.env.ok
           \/ call.env.body # "text"
        THEN call.openaiReply = Null
        ELSE call.openaiReply = ReplyText

\* An error status whose body nevertheless carries a first choice.
C16_Witness ==
  /\ call.pc = "replied"
  /\ call.env.apiKey
  /\ call.env.fetch = "resolves"
  /\ ~call.env.ok
  /\ call.env.body = "text"
  /\ call.openaiReply = Null

\* C21: quantization writes 32767 for amplitude 1, -32768 for -1, 0 for 0,
\* the same endpoint values for amplitudes beyond them, and for every
\* amplitude a value of the signed 16-bit range, without a RangeError.
C21_QuantizeInRange ==
  call.pc \in {"written", "threw"}
  => /\ call.pc = "written"
     /\ call.value \in (-32768)..32767
     /\ ~call.sample.nan
        => /\ call.sample.n >= Grid => call.value = 32767
           /\ call.sample.n <= -Grid => call.value = -32768
           /\ call.sample.n = 0 => call.value = 0

\* An amplitude below -1 written as the lower endpoint.
C21_Witness ==
  /\ call.pc = "written"
  /\ ~call.sample.nan
  /\ call.sample.n < -Grid
  /\ call.value = -32768

\* C22: a step by which a user who is registered in the channel they sit in
\* leaves that channel, for no channel or for another one, removes the user
\* from that channel's users in the registry.
C22_LeaverIsRemoved ==
  [][\A c \in Channels, u \in Members :
       (/\ proc'.status = "running"
        /\ Tracked(channelVoiceStates, c, u)
        /\ voice[u] = c
        /\ voice'[u] # c)
       => ~Tracked(channelVoiceStates', c, u)]_vars

\* C23: a step that handles '!leave' while the guild has a voice connection
\* (the connection goes, nobody's voice state changes) leaves the registry
\* without an entry for the channel of that connection.
C23_LeaveDropsChannel ==
  [][(/\ proc'.status = "running"
      /\ getVoiceConnection(conns) # 0
      /\ getVoiceConnection(conns') = 0
      /\ voice' = voice)
     => conns[getVoiceConnection(conns)].channelId
          \notin DOMAIN channelVoiceStates']_vars

\* Neither trigger rule applies to transcript t.
NoTrigger(t) == NoCoachInFirstThree(t) /\ Remainder(t) = Null

\* C24: for a transcript that matches neither trigger rule, onUserSpeak ends
\* at once, without calling sendTranscriptToOpenAI and without invoking
\* speakTextInVoiceChannel, and nothing more happens for that transcript.
C24_NoTriggerNoAction ==
  /\ [](Parsed /\ NoTrigger(call.transcript)
        => call.pc = "discarded" /\ ~call.asked /\ ~call.spoke)
  /\ [][call.pc = "discarded" => call' = call]_vars

\* A transcript of several tokens without a trigger, dropped.
C24_Witness ==
  /\ call.pc = "discarded"
  /\ Len(Words(call.transcript)) >= 2
  /\ NoTrigger(call.transcript)
  /\ ~call.asked
  /\ ~call.spoke

\* C25: when sendTranscriptToOpenAI returns null, onUserSpeak sends no "(AI)"
\* message, does not invoke speakTextInVoiceChannel, and ends without a throw.
C25_NoReplyNoSpeech ==
  (call.pc \in {"replied", "rejected"} /\ call.openaiReply = Null)
  => /\ call.pc = "replied"
     /\ ~call.sent
     /\ ~call.spoke

\* The assistant answered without content while the channel was in the cache.
C25_Witness ==
  /\ call.pc = "replied"
  /\ call.env.apiKey /\ call.env.fetch = "resolves" /\ call.env.ok
  /\ call.env.body = "noContent"
  /\ call.channelObj
  /\ call.openaiReply = Null
  /\ ~call.sent /\ ~call.spoke

\* C26: the step in which the player of a playback reports idle stops the
\* player, destroys the encoder (opusStream) and the resampler (ffmpeg) and
\* clears the speaking flag of the connection; a finished playback holds no
\* stream that is not destroyed.
C26_IdleReleasesPlayback ==
  /\ [][\A p \in 1..Len(playbacks) :
          (playbacks[p].status = "playing" /\ playbacks'[p].status = "idle")
          => /\ playbacks'[p].stopped
             /\ playbacks'[p].opusStream = "destroyed"
             /\ playbacks'[p].ffmpeg = "destroyed"
             /\ ~conns'[playbacks[p].conn].speaking]_vars
  /\ [](\A p \in 1..Len(playbacks) :
          playbacks[p].status = "idle"
          => /\ playbacks[p].opusStream = "destroyed"
             /\ playbacks[p].ffmpeg = "destroyed")

\* A playback that has finished, with its player stopped, its streams
\* destroyed and the flag clear.
C26_Witness ==
  \E p \in 1..Len(playbacks) :
    /\ playbacks[p].status = "idle"
    /\ playbacks[p].stopped
    /\ playbacks[p].opusStream = "destroyed"
    /\ playbacks[p].ffmpeg = "destroyed"
    /\ ~conns[playbacks[p].conn].speaking

\* C30: while a playback is playing on a connection, the connection's
\* speaking flag is set.
C30_PlayingImpliesSpeaking ==
  \A p \in 1..Len(playbacks) :
    playbacks[p].status = "playing" => conns[playbacks[p].conn].speaking

\* C27: no chunk is sent on a socket after the socket has been closed.
C27_NoSendAfterClose ==
  \A s \in 1..Len(sessions) : sessions[s].sendsAfterClose = 0

\* C28: no capture loop runs for a bot account and no bot account is
\* registered as a user of a channel, the bot's own account included.
C28_NoCaptureForBots ==
  /\ \A l \in 1..Len(loops) : ~IsBot(loops[l].userId)
  /\ \A c \in DOMAIN channelVoiceStates :
       \A u \in DOMAIN channelVoiceStates[c].users : ~IsBot(u)

\* C29: a step in which a member changes channel and the guild's voice
\* connection is destroyed is one in which the member left the channel the
\* connection is in and that channel holds no non-bot member afterwards.
C29_DestroyOnlyForOwnChannel ==
  [][\A m \in Members :
       (/\ proc'.status = "running"
        /\ voice'[m] # voice[m]
        /\ getVoiceConnection(conns) # 0
        /\ getVoiceConnection(conns') = 0)
       => /\ voice[m] = conns[getVoiceConnection(conns)].channelId
          /\ NonBotMembers(voice',
                           conns[getVoiceConnection(conns)].channelId) = {}]_vars

\* C31: under any sequence of initUserInChannel, cleanupUserInChannel and
\* closeAllDeepgramStreams, every channel entry of the registry holds at least
\* one user, every user entry is filed under its own identifier (so an
\* identifier occurs at most once per channel), and a cleanupUserInChannel
\* call for a channel or user the registry does not hold changes no entry
\* and closes no socket.
C31_RegistryWellFormed ==
  /\ [](\A c \in DOMAIN channelVoiceStates :
          /\ channelVoiceStates[c].channelId = c
          /\ DOMAIN channelVoiceStates[c].users # {}
          /\ \A u \in DOMAIN channelVoiceStates[c].users :
               channelVoiceStates[c].users[u].userId = u)
  /\ [][\A c \in Channels, u \in Members :
          (RegCleanupUser(c, u) /\ ~Tracked(channelVoiceStates, c, u))
          => /\ channelVoiceStates' = channelVoiceStates
             /\ sessions' = sessions]_vars

\* A user is registered in an empty registry and the next call is a
\* cleanupUserInChannel that leaves the entry: it named another channel or user.
C31_Witness ==
  /\ Len(regCalls) = 2
  /\ regCalls[1].op = "initUserInChannel"
  /\ regCalls[1].channelsBefore = 0
  /\ regCalls[2].op = "cleanupUserInChannel"
  /\ regCalls[2].channelsBefore = 1
  /\ DOMAIN channelVoiceStates # {}

====
